---- MODULE Spec2Model ----
(***************************************************************************)
(* Model of src/python/anomaly_detector.py: class AnomalyDetector.          *)
(*                                                                         *)
(* Two specifications share the state of one AnomalyDetector object:       *)
(*   Spec     the process started by run_detection_loop(), together with   *)
(*            the telemetry producer, I/O faults and the interrupt signal;  *)
(*   SpecAPI  a caller that invokes the public methods train_model,         *)
(*            detect_anomalies, save_anomalies and clean_anomalies          *)
(*            directly on a freshly constructed object;                     *)
(*   SpecSeverity  a caller that applies calculate_severity to points.      *)
(*                                                                         *)
(* Abstractions.  A telemetry point is a record                             *)
(*   [line, timestamp, missing, vibration, engineFailure, trainingPhase]    *)
(* where `missing` names the one key of the JSON object that is absent     *)
(* ("none" when all are present), vibration is in tenths of g, and the      *)
(* optional keys engineFailure / trainingPhase are "true", "false" or      *)
(* "absent".  The timestamp is the number of the line in the telemetry      *)
(* file, so that two lines are two records.  The fitted StandardScaler is   *)
(* represented by the number of samples it was fitted on, the fitted        *)
(* IsolationForest by its decision function on the vibration feature       *)
(* (vibration -> 1 | -1), chosen nondeterministically by every fit.         *)
(* The Python locals new_data and anomalies are emptied when a cycle ends.  *)
(***************************************************************************)
EXTENDS Integers, Sequences, FiniteSets, TLC

\* ---------------------------------------------------------------- bounds
MaxAppend == 2      \* lines the telemetry producer appends during a run
MaxFaults == 1      \* I/O faults injected during a run
MaxCalls == 3       \* method calls of the direct caller (SpecAPI)
MaxVib == 100       \* largest vibration, in tenths of g, given to calculate_severity

\* ------------------------------------------------------ program constants
MinTrain == 120     \* train_model: len(training_data) < 120
Threshold == 10     \* detect_anomalies: incorrect_anomalies > 10
CriticalAbove == 80 \* calculate_severity: vibration > 8.0
HighAbove == 60     \* calculate_severity: vibration > 6.0
MediumAbove == 40   \* calculate_severity: vibration > 4.0

Features == {"altitude", "airspeed", "pitch", "vibration"}

\* Training-phase points vibrate at LowVib, scoring-phase points at HighVib.
LowVib == MediumAbove - 10
HighVib == CriticalAbove + 10
ScoredVibs == {HighVib}

\* The decision functions a fit may produce on the vibrations that get scored
\* (predict: 1 normal, -1 anomaly).
Boundaries == [ScoredVibs -> {1, -1}]
Unfitted == [v \in ScoredVibs |-> 1]

\* ------------------------------------------------------- telemetry lines
Point(ts, miss, vib, ef, tp) ==
    [line |-> "json", timestamp |-> ts, missing |-> miss, vibration |-> vib,
     engineFailure |-> ef, trainingPhase |-> tp]

BlankLine(ts) ==
    [line |-> "blank", timestamp |-> ts, missing |-> "none", vibration |-> LowVib,
     engineFailure |-> "absent", trainingPhase |-> "absent"]

GarbageLine(ts) ==
    [line |-> "garbage", timestamp |-> ts, missing |-> "none", vibration |-> LowVib,
     engineFailure |-> "absent", trainingPhase |-> "absent"]

\* The lines the producer may write as line number ts.
LineKinds(ts) ==
    { BlankLine(ts), GarbageLine(ts),
      Point(ts, "none", LowVib, "false", "true"),
      Point(ts, "none", LowVib, "false", "absent"),
      Point(ts, "pitch", LowVib, "false", "true"),
      Point(ts, "none", HighVib, "true", "false"),
      Point(ts, "none", HighVib, "false", "false"),
      Point(ts, "none", HighVib, "absent", "false"),
      Point(ts, "altitude", HighVib, "true", "false") }

\* n well-formed training-phase lines followed by m scoring-phase lines whose
\* engineFailure is false.
InitialFile(n, m) ==
    [i \in 1..(n + m) |->
        IF i <= n THEN Point(i, "none", LowVib, "false", "true")
                  ELSE Point(i, "none", HighVib, "false", "false")]

\* ------------------------------------------------------- pure functions
\* extract_features: KeyError when one of the four keys is absent.
extract_features(point) ==
    IF point.missing \in Features
    THEN [err |-> TRUE, vec |-> <<>>]
    ELSE [err |-> FALSE, vec |-> <<point.vibration>>]

AnyFeatureError(points) ==
    \E i \in 1..Len(points) : extract_features(points[i]).err

\* The comparisons are inclusive: exactly 8.0 is CRITICAL, 6.0 HIGH, 4.0 MEDIUM.
calculate_severity_inclusive(point) ==
    IF point.vibration >= CriticalAbove THEN "CRITICAL"
    ELSE IF point.vibration >= HighAbove THEN "HIGH"
    ELSE IF point.vibration >= MediumAbove THEN "MEDIUM"
    ELSE "LOW"

\* calculate_severity
calculate_severity(point) ==
    IF point.vibration > CriticalAbove THEN "CRITICAL"
    ELSE IF point.vibration > HighAbove THEN "HIGH"
    ELSE IF point.vibration > MediumAbove THEN "MEDIUM"
    ELSE "LOW"

\* The dict built for a detected anomaly (detected_at, a wall-clock reading,
\* and the three features carried verbatim are left out).
AnomalyOf(point) ==
    [timestamp |-> point.timestamp, vibration |-> point.vibration,
     engineFailure |-> point.engineFailure, severity |-> calculate_severity(point)]

\* Building the dict reads point['timestamp'] and point['engineFailure'].
AnomalyKeyError(point) ==
    point.missing = "timestamp" \/ point.engineFailure = "absent"

\* ------------------------------------------------------------ train_model
\* m is the object's model state [is_trained, scaler, model]; fitted is the
\* decision function this fit would produce.
\* The fit has no minimum: any number of points is fitted.
train_model_without_minimum(data, m, fitted) ==
    IF AnyFeatureError(data)
    THEN [ret |-> "KeyError", m |-> m]
    ELSE [ret |-> "True",
          m |-> [is_trained |-> TRUE, scaler |-> Len(data), model |-> fitted]]

\* The threshold test is off by one: exactly 120 points are refused.
train_model_refusing_120(data, m, fitted) ==
    IF Len(data) <= MinTrain
    THEN [ret |-> "False", m |-> m]
    ELSE IF AnyFeatureError(data)
    THEN [ret |-> "KeyError", m |-> m]
    ELSE [ret |-> "True",
          m |-> [is_trained |-> TRUE, scaler |-> Len(data), model |-> fitted]]

train_model(data, m, fitted) ==
    IF Len(data) < MinTrain
    THEN [ret |-> "False", m |-> m]
    ELSE IF AnyFeatureError(data)
    THEN [ret |-> "KeyError", m |-> m]
    ELSE [ret |-> "True",
          m |-> [is_trained |-> TRUE, scaler |-> Len(data), model |-> fitted]]

\* -------------------------------------------------------- detect_anomalies
\* self is [m, training_data, incorrect_anomalies]; the result carries the
\* object's fields after the call, the returned list, whether the call raised,
\* the retrains it ran (size of the buffer fitted, the triggering point), the
\* number of points the loop finished with and the value of the counter after
\* each of them.
\* The retrain fires one false positive early.
RetrainDueAtThreshold(n) == n >= Threshold

\* The retrain fires one false positive late.
RetrainDueLate(n) == n > Threshold + 1

\* "if self.incorrect_anomalies > 10"
RetrainDue(n) == n > Threshold

\* Each point is labelled by the model as it stands when the loop reaches it,
\* so that a retrain relabels the rest of the batch.
RECURSIVE DetectLoopRelabelling(_, _, _, _, _)
DetectLoopRelabelling(points, predictions, i, acc, fitted) ==
    IF i > Len(points) THEN [acc EXCEPT !.done = Len(points)]
    ELSE
      LET point == points[i] IN
      IF acc.m.model[point.vibration] # -1
      THEN DetectLoopRelabelling(points, predictions, i + 1,
               [acc EXCEPT !.counts = Append(@, acc.incorrect_anomalies)], fitted)
      ELSE IF AnomalyKeyError(point) THEN [acc EXCEPT !.err = TRUE, !.done = i - 1]
      ELSE IF point.engineFailure = "false"
      THEN LET td == Append(acc.training_data, point)
               n == acc.incorrect_anomalies + 1
           IN IF RetrainDue(n)
              THEN LET t == train_model(td, acc.m, fitted) IN
                   IF t.ret = "KeyError"
                   THEN [acc EXCEPT !.err = TRUE, !.done = i - 1, !.training_data = td,
                                    !.incorrect_anomalies = n]
                   ELSE DetectLoopRelabelling(points, predictions, i + 1,
                            [acc EXCEPT !.m = t.m, !.training_data = td,
                                        !.incorrect_anomalies = 0,
                                        !.counts = Append(@, 0),
                                        !.retrains = Append(@,
                                            [size |-> Len(td), trigger |-> point,
                                             ret |-> t.ret])],
                            fitted)
              ELSE DetectLoopRelabelling(points, predictions, i + 1,
                       [acc EXCEPT !.training_data = td, !.incorrect_anomalies = n,
                                   !.counts = Append(@, n)],
                       fitted)
      ELSE DetectLoopRelabelling(points, predictions, i + 1,
               [acc EXCEPT !.anomalies = Append(@, AnomalyOf(point)),
                           !.counts = Append(@, acc.incorrect_anomalies)], fitted)

RECURSIVE DetectLoop(_, _, _, _, _)
DetectLoop(points, predictions, i, acc, fitted) ==
    IF i > Len(points) THEN [acc EXCEPT !.done = Len(points)]
    ELSE
      LET point == points[i] IN
      IF predictions[i] # -1
      THEN DetectLoop(points, predictions, i + 1,
               [acc EXCEPT !.counts = Append(@, acc.incorrect_anomalies)], fitted)
      ELSE IF AnomalyKeyError(point) THEN [acc EXCEPT !.err = TRUE, !.done = i - 1]
      ELSE IF point.engineFailure = "false"
      THEN LET td == Append(acc.training_data, point)
               n == acc.incorrect_anomalies + 1
           IN IF RetrainDue(n)
              THEN LET t == train_model(td, acc.m, fitted) IN
                   IF t.ret = "KeyError"
                   THEN [acc EXCEPT !.err = TRUE, !.done = i - 1, !.training_data = td,
                                    !.incorrect_anomalies = n]
                   ELSE DetectLoop(points, predictions, i + 1,
                            [acc EXCEPT !.m = t.m, !.training_data = td,
                                        !.incorrect_anomalies = 0,
                                        !.counts = Append(@, 0),
                                        !.retrains = Append(@,
                                            [size |-> Len(td), trigger |-> point,
                                             ret |-> t.ret])],
                            fitted)
              ELSE DetectLoop(points, predictions, i + 1,
                       [acc EXCEPT !.training_data = td, !.incorrect_anomalies = n,
                                   !.counts = Append(@, n)],
                       fitted)
      ELSE DetectLoop(points, predictions, i + 1,
               [acc EXCEPT !.anomalies = Append(@, AnomalyOf(point)),
                           !.counts = Append(@, acc.incorrect_anomalies)], fitted)

detect_anomalies(points, self, fitted) ==
    LET start == [err |-> FALSE, m |-> self.m, training_data |-> self.training_data,
                  incorrect_anomalies |-> self.incorrect_anomalies,
                  anomalies |-> <<>>, retrains |-> <<>>, predictions |-> <<>>,
                  done |-> 0, counts |-> <<>>]
    IN IF ~self.m.is_trained THEN start
       ELSE IF points = <<>> \/ AnyFeatureError(points) THEN [start EXCEPT !.err = TRUE]
       ELSE LET predictions == [i \in 1..Len(points) |-> self.m.model[points[i].vibration]]
            IN DetectLoop(points, predictions, 1,
                          [start EXCEPT !.predictions = predictions], fitted)

\* ----------------------------------------------------------- anomaly store
\* The file ../anomalies.json: missing, zero bytes ("empty"), unparsable
\* ("corrupt"), or a JSON array ("array", items).
StoreFile(kind, items) == [kind |-> kind, items |-> items]

\* json.load with FileNotFoundError and JSONDecodeError swallowed
existing_anomalies(file) == IF file.kind = "array" THEN file.items ELSE <<>>

\* The file is rewritten with the new anomalies only.
save_anomalies_overwriting(file, new_anomalies) == StoreFile("array", new_anomalies)

\* The new anomalies are put in front of the existing ones.
save_anomalies_prepending(file, new_anomalies) ==
    StoreFile("array", new_anomalies \o existing_anomalies(file))

\* save_anomalies when the write succeeds
save_anomalies(file, new_anomalies) ==
    StoreFile("array", existing_anomalies(file) \o new_anomalies)

\* clean_anomalies when the open succeeds
clean_anomalies(file) == StoreFile("empty", <<>>)

\* ------------------------------------------------------ load_telemetry_data
\* file is the sequence of lines, exists whether the file is there.
NewLines(file, pos) == SubSeq(file, pos + 1, Len(file))

\* self.last_position is never advanced.
load_telemetry_data_no_advance(file, exists, pos) ==
    LET lines == NewLines(file, pos)
        IsJson(l) == l.line = "json"
    IN IF ~exists THEN [err |-> FALSE, data |-> <<>>, last_position |-> pos]
       ELSE IF \E i \in 1..Len(lines) : lines[i].line = "garbage"
       THEN [err |-> TRUE, data |-> <<>>, last_position |-> pos]
       ELSE [err |-> FALSE, data |-> SelectSeq(lines, IsJson), last_position |-> pos]

load_telemetry_data(file, exists, pos) ==
    LET lines == NewLines(file, pos)
        IsJson(l) == l.line = "json"
    IN IF ~exists THEN [err |-> FALSE, data |-> <<>>, last_position |-> pos]
       ELSE IF \E i \in 1..Len(lines) : lines[i].line = "garbage"
       THEN [err |-> TRUE, data |-> <<>>, last_position |-> pos]
       ELSE [err |-> FALSE, data |-> SelectSeq(lines, IsJson),
             last_position |-> Len(file)]

\* The handler of "except Exception" rests like a cycle without error.
ExceptionHandlerResting2 == "sleep2"

\* "except Exception as e: print(...); time.sleep(5)"
ExceptionHandler == "sleep5"

\* The buffer is extended and refitted even when the model is trained.
ShouldTrainAlways(batch, trained) == batch # <<>>

\* "if training_data and not self.is_trained"
ShouldTrain(batch, trained) == batch # <<>> /\ ~trained

\* d.get('trainingPhase', True)
InTrainingPhase(d) == d.trainingPhase # "false"
NotInTrainingPhase(d) == ~InTrainingPhase(d)

\* ------------------------------------------------------------------- state
VARIABLES
    telemetry,           \* ../telemetry.jsonl: the lines written so far
    telemetryExists,     \* whether ../telemetry.jsonl exists
    appended,            \* lines appended by the producer during the run
    anomaliesFile,       \* ../anomalies.json
    m,                   \* self.is_trained, self.scaler, self.model
    training_data,       \* self.training_data
    incorrect_anomalies, \* self.incorrect_anomalies
    last_position,       \* self.last_position
    pc,                  \* position of run_detection_loop / "api" for a direct caller
    new_data,            \* local new_data of the current cycle
    anomalies,           \* local anomalies of the current cycle
    faults,              \* I/O faults injected so far
    signalled,           \* where the loop was when SIGINT arrived ("none": not yet)
    erred,               \* some cycle ended in the except Exception handler
    sourceAtFetch,       \* history: lines the source held when it was last fetched
    cycleErr,            \* history: the current cycle raised an exception
    scoredLog,           \* history: every point given a prediction, in order, with
                         \*   the cursor of the batch it came in
    retrainLog,          \* history: every retrain run by detect_anomalies
    appendLog,           \* history: what save_anomalies was given since the store was emptied
    ret,                 \* direct caller: the last call and what it returned
    calls                \* direct caller: calls made so far

vars == <<telemetry, telemetryExists, appended, anomaliesFile, m, training_data,
          incorrect_anomalies, last_position, pc, new_data, anomalies, faults,
          signalled, erred, sourceAtFetch, cycleErr, scoredLog, retrainLog,
          appendLog, ret, calls>>

object == <<m, training_data, incorrect_anomalies, last_position>>
source == <<telemetry, telemetryExists, appended>>
history == <<scoredLog, retrainLog, appendLog>>
caller == <<ret, calls>>
cycle == <<sourceAtFetch, cycleErr>>

self == [m |-> m, training_data |-> training_data,
         incorrect_anomalies |-> incorrect_anomalies]

\* __init__
NewModel == [is_trained |-> FALSE, scaler |-> 0, model |-> Unfitted]
NoCall == [op |-> "none", arg |-> <<>>, value |-> "none", result |-> <<>>,
           trained |-> FALSE]

InitObject ==
    /\ m = NewModel
    /\ training_data = <<>>
    /\ incorrect_anomalies = 0
    /\ last_position = 0

\* What a previous run may have left in ../anomalies.json.
PriorAnomaly == AnomalyOf(Point(0, "none", HighVib, "true", "false"))
InitStores == { StoreFile("missing", <<>>), StoreFile("array", <<PriorAnomaly>>) }

InitTrain == {0, MinTrain - 1, MinTrain}
InitFP == {0, Threshold}

Init ==
    /\ InitObject
    /\ \E n \in InitTrain, k \in InitFP : telemetry = InitialFile(n, k)
    /\ telemetryExists \in BOOLEAN
    /\ telemetry # <<>> => telemetryExists
    /\ appended = 0
    /\ anomaliesFile \in InitStores
    /\ pc = "start"
    /\ new_data = <<>>
    /\ anomalies = <<>>
    /\ faults = 0
    /\ signalled = "none"
    /\ erred = FALSE
    /\ sourceAtFetch = 0
    /\ cycleErr = FALSE
    /\ scoredLog = <<>>
    /\ retrainLog = <<>>
    /\ appendLog = anomaliesFile.items
    /\ ret = NoCall
    /\ calls = 0

Running == pc \notin {"stopped", "crashed", "api"}

\* ------------------------------------------------------------- environment
\* The producer creates the telemetry file.
CreateFile ==
    /\ Running
    /\ ~telemetryExists
    /\ telemetryExists' = TRUE
    /\ UNCHANGED <<telemetry, appended, anomaliesFile, object, pc, new_data,
                   anomalies, faults, signalled, erred, cycle, history, caller>>

\* The producer appends one line.
Produce ==
    /\ Running
    /\ telemetryExists
    /\ appended < MaxAppend
    /\ \E l \in LineKinds(Len(telemetry) + 1) : telemetry' = Append(telemetry, l)
    /\ appended' = appended + 1
    /\ UNCHANGED <<telemetryExists, anomaliesFile, object, pc, new_data,
                   anomalies, faults, signalled, erred, cycle, history, caller>>

\* --------------------------------------------------------- run_detection_loop
\* self.clean_anomalies() before the loop
CleanAnomalies ==
    /\ pc = "start"
    /\ anomaliesFile' = clean_anomalies(anomaliesFile)
    /\ appendLog' = <<>>
    /\ pc' = "load"
    /\ UNCHANGED <<source, object, new_data, anomalies, faults, signalled, erred,
                   cycle, scoredLog, retrainLog, caller>>

\* open(self.anomalies_file, 'w') raises OSError: nothing catches it.
CleanAnomaliesFails ==
    /\ pc = "start"
    /\ faults < MaxFaults
    /\ faults' = faults + 1
    /\ pc' = "crashed"
    /\ UNCHANGED <<source, anomaliesFile, object, new_data, anomalies, signalled,
                   erred, cycle, history, caller>>

\* new_data = self.load_telemetry_data(); if new_data: ... else: print(...)
LoadTelemetry ==
    /\ pc = "load"
    /\ LET r == load_telemetry_data(telemetry, telemetryExists, last_position) IN
         /\ last_position' = r.last_position
         /\ new_data' = r.data
         /\ pc' = IF r.err THEN ExceptionHandler
                  ELSE IF r.data # <<>> THEN "train" ELSE "sleep2"
         /\ erred' = (erred \/ r.err)
         /\ cycleErr' = r.err
         /\ sourceAtFetch' = Len(telemetry)
    /\ UNCHANGED <<source, anomaliesFile, m, training_data, incorrect_anomalies,
                   anomalies, faults, signalled, history, caller>>

\* the partition and "if training_data and not self.is_trained"
TrainStep ==
    /\ pc = "train"
    /\ LET batch == SelectSeq(new_data, InTrainingPhase) IN
       IF ShouldTrain(batch, m.is_trained)
       THEN \E fitted \in Boundaries :
              LET t == train_model(training_data \o batch, m, fitted) IN
                /\ training_data' = training_data \o batch
                /\ m' = t.m
                /\ pc' = IF t.ret = "KeyError" THEN ExceptionHandler ELSE "detect"
                /\ erred' = (erred \/ t.ret = "KeyError")
                /\ cycleErr' = (t.ret = "KeyError")
                /\ UNCHANGED sourceAtFetch
       ELSE /\ pc' = "detect"
            /\ UNCHANGED <<training_data, m, erred, cycle>>
    /\ UNCHANGED <<source, anomaliesFile, incorrect_anomalies, last_position,
                   new_data, anomalies, faults, signalled, history, caller>>

LogScored(points, r) ==
    [i \in 1..Len(r.predictions) |->
        [point |-> points[i], label |-> r.predictions[i], seen |-> i <= r.done,
         returned |-> ~r.err, cursor |-> last_position, boundary |-> m.model,
         count |-> IF i <= r.done THEN r.counts[i] ELSE r.incorrect_anomalies]]

\* "if testing_data and self.is_trained": anomalies = self.detect_anomalies(...)
DetectStep ==
    /\ pc = "detect"
    /\ LET testing_data == SelectSeq(new_data, NotInTrainingPhase) IN
       IF testing_data # <<>> /\ m.is_trained
       THEN \E fitted \in Boundaries :
              LET r == detect_anomalies(testing_data, self, fitted) IN
                /\ m' = r.m
                /\ training_data' = r.training_data
                /\ incorrect_anomalies' = r.incorrect_anomalies
                /\ anomalies' = IF r.err THEN <<>> ELSE r.anomalies
                /\ pc' = IF r.err THEN ExceptionHandler
                         ELSE IF r.anomalies # <<>> THEN "save" ELSE "sleep2"
                /\ erred' = (erred \/ r.err)
                /\ cycleErr' = r.err
                /\ UNCHANGED sourceAtFetch
                /\ scoredLog' = scoredLog \o LogScored(testing_data, r)
                /\ retrainLog' = retrainLog \o r.retrains
       ELSE /\ pc' = "sleep2"
            /\ UNCHANGED <<m, training_data, incorrect_anomalies, anomalies, erred,
                           cycle, scoredLog, retrainLog>>
    /\ UNCHANGED <<source, anomaliesFile, last_position, new_data, faults,
                   signalled, appendLog, caller>>

\* "if anomalies: self.save_anomalies(anomalies)"
SaveAnomalies ==
    /\ pc = "save"
    /\ anomaliesFile' = save_anomalies(anomaliesFile, anomalies)
    /\ appendLog' = appendLog \o anomalies
    /\ pc' = "sleep2"
    /\ UNCHANGED <<source, object, new_data, anomalies, faults, signalled, erred,
                   cycle, scoredLog, retrainLog, caller>>

\* open(self.anomalies_file, 'w') raises OSError inside the try block.
SaveAnomaliesFails ==
    /\ pc = "save"
    /\ faults < MaxFaults
    /\ faults' = faults + 1
    /\ pc' = ExceptionHandler
    /\ erred' = TRUE
    /\ cycleErr' = TRUE
    /\ UNCHANGED sourceAtFetch
    /\ UNCHANGED <<source, anomaliesFile, object, new_data, anomalies, signalled,
                   history, caller>>

\* time.sleep(2) returns
Sleep2 ==
    /\ pc = "sleep2"
    /\ pc' = "load"
    /\ new_data' = <<>>
    /\ anomalies' = <<>>
    /\ cycleErr' = FALSE
    /\ UNCHANGED <<source, anomaliesFile, object, faults, signalled, erred,
                   sourceAtFetch, history, caller>>

\* time.sleep(5) in the except Exception handler returns
Sleep5 ==
    /\ pc = "sleep5"
    /\ pc' = "load"
    /\ new_data' = <<>>
    /\ anomalies' = <<>>
    /\ cycleErr' = FALSE
    /\ UNCHANGED <<source, anomaliesFile, object, faults, signalled, erred,
                   sourceAtFetch, history, caller>>

\* Where a KeyboardInterrupt is caught by "except KeyboardInterrupt: break":
\* anywhere in the try block.
InTry == {"load", "train", "detect", "save", "sleep2"}

InterruptTarget(at) == IF at \in InTry THEN "stopped" ELSE "crashed"

\* SIGINT is delivered.
Interrupt ==
    /\ Running
    /\ signalled' = pc
    /\ pc' = InterruptTarget(pc)
    /\ UNCHANGED <<source, anomaliesFile, object, new_data, anomalies, faults,
                   erred, cycle, history, caller>>

Next ==
    \/ CreateFile
    \/ Produce
    \/ CleanAnomalies
    \/ CleanAnomaliesFails
    \/ LoadTelemetry
    \/ TrainStep
    \/ DetectStep
    \/ SaveAnomalies
    \/ SaveAnomaliesFails
    \/ Sleep2
    \/ Sleep5
    \/ Interrupt

Spec == Init /\ [][Next]_vars

\* ------------------------------------------------------------ fairness
\* The positions at which the process that runs run_detection_loop has a
\* statement to execute.
LoopPcs == {"start", "load", "train", "detect", "save", "sleep2", "sleep5"}

\* The process executes the statement it is at, normally or by raising: the
\* position moves on and no SIGINT is involved.  Every action of the loop is
\* such a step, and one of them is enabled at every position of LoopPcs.
ProcessStep ==
    /\ pc \in LoopPcs
    /\ pc' \in LoopPcs \cup {"crashed"}
    /\ signalled' = signalled

\* Each statement of the loop completes and each time.sleep returns.  The
\* producer, the faults of the file system and SIGINT are not obliged to
\* happen.
SpecLive == Init /\ [][Next]_vars /\ WF_pc(ProcessStep)

\* ------------------------------------------------------------ direct caller
\* A caller (a test, another module) that uses the methods of a new object.
Training(n) == InitialFile(n, 0)

\* n points of which the last lacks 'pitch'
TrainingWithBadPoint(n) ==
    [i \in 1..n |-> IF i < n THEN Point(i, "none", LowVib, "false", "true")
                             ELSE Point(i, "pitch", LowVib, "false", "true")]

TrainArgs ==
    { Training(0), Training(MinTrain - 1), Training(MinTrain), Training(MinTrain + 1),
      TrainingWithBadPoint(MinTrain - 1), TrainingWithBadPoint(MinTrain) }

Confirmed(ts) == Point(ts, "none", HighVib, "true", "false")
Misjudged(ts) == Point(ts, "none", HighVib, "false", "false")
Unlabelled(ts) == Point(ts, "none", HighVib, "absent", "false")
Malformed(ts) == Point(ts, "altitude", HighVib, "true", "false")

DetectArgs(ts) ==
    { <<>>, <<Confirmed(ts)>>, <<Misjudged(ts)>>, <<Unlabelled(ts)>>, <<Malformed(ts)>>,
      <<Misjudged(ts), Confirmed(ts + 1)>>, <<Confirmed(ts), Unlabelled(ts + 1)>>,
      <<Confirmed(ts), Malformed(ts + 1)>> }

SaveArgs(ts) ==
    { <<>>, <<AnomalyOf(Confirmed(ts))>>,
      <<AnomalyOf(Confirmed(ts)), AnomalyOf(Confirmed(ts + 1))>> }

APIStores ==
    InitStores \cup { StoreFile("empty", <<>>), StoreFile("corrupt", <<>>) }

InitAPI ==
    /\ InitObject
    /\ telemetry = <<>>
    /\ telemetryExists = FALSE
    /\ appended = 0
    /\ anomaliesFile \in APIStores
    /\ pc = "api"
    /\ new_data = <<>>
    /\ anomalies = <<>>
    /\ faults = 0
    /\ signalled = "none"
    /\ erred = FALSE
    /\ sourceAtFetch = 0
    /\ cycleErr = FALSE
    /\ scoredLog = <<>>
    /\ retrainLog = <<>>
    /\ appendLog = anomaliesFile.items
    /\ ret = NoCall
    /\ calls = 0

CanCall ==
    /\ pc = "api"
    /\ calls < MaxCalls

Called(op, arg, value, result) ==
    /\ ret' = [op |-> op, arg |-> arg, value |-> value, result |-> result,
               trained |-> m.is_trained]
    /\ calls' = calls + 1

\* detector.train_model(data)
CallTrainModel ==
    /\ CanCall
    /\ \E data \in TrainArgs, fitted \in Boundaries :
         LET t == train_model(data, m, fitted) IN
           /\ m' = t.m
           /\ Called("train_model", data, t.ret, <<>>)
    /\ UNCHANGED <<source, anomaliesFile, training_data, incorrect_anomalies,
                   last_position, pc, new_data, anomalies, faults, signalled, erred,
                   cycle,
                   history>>

\* detector.detect_anomalies(points)
CallDetectAnomalies ==
    /\ CanCall
    /\ \E points \in DetectArgs(2 * calls + 1), fitted \in Boundaries :
         LET r == detect_anomalies(points, self, fitted) IN
           /\ m' = r.m
           /\ training_data' = r.training_data
           /\ incorrect_anomalies' = r.incorrect_anomalies
           /\ Called("detect_anomalies", points,
                     IF r.err THEN "raised" ELSE "returned",
                     IF r.err THEN <<>> ELSE r.anomalies)
    /\ UNCHANGED <<source, anomaliesFile, last_position, pc, new_data, anomalies,
                   faults, signalled, erred, cycle, history>>

\* detector.save_anomalies(new_anomalies)
CallSaveAnomalies ==
    /\ CanCall
    /\ \E new_anomalies \in SaveArgs(2 * calls + 1) :
         /\ anomaliesFile' = save_anomalies(anomaliesFile, new_anomalies)
         /\ appendLog' = appendLog \o new_anomalies
         /\ Called("save_anomalies", new_anomalies, "returned", <<>>)
    /\ UNCHANGED <<source, object, pc, new_data, anomalies, faults, signalled,
                   erred, cycle, scoredLog, retrainLog>>

\* detector.save_anomalies(new_anomalies) when the open for writing raises
CallSaveAnomaliesFails ==
    /\ CanCall
    /\ faults < MaxFaults
    /\ faults' = faults + 1
    /\ \E new_anomalies \in SaveArgs(2 * calls + 1) :
         Called("save_anomalies", new_anomalies, "raised", <<>>)
    /\ UNCHANGED <<source, anomaliesFile, object, pc, new_data, anomalies,
                   signalled, erred, cycle, history>>

\* detector.clean_anomalies()
CallCleanAnomalies ==
    /\ CanCall
    /\ anomaliesFile' = clean_anomalies(anomaliesFile)
    /\ appendLog' = <<>>
    /\ Called("clean_anomalies", <<>>, "returned", <<>>)
    /\ UNCHANGED <<source, object, pc, new_data, anomalies, faults, signalled,
                   erred, cycle, scoredLog, retrainLog>>

NextAPI ==
    \/ CallTrainModel
    \/ CallDetectAnomalies
    \/ CallSaveAnomalies
    \/ CallSaveAnomaliesFails
    \/ CallCleanAnomalies

SpecAPI == InitAPI /\ [][NextAPI]_vars

\* ------------------------------------------------- caller of calculate_severity
\* The points given to calculate_severity: any vibration up to MaxVib, with
\* the other keys varying.
SeverityArgs ==
    { Point(0, miss, v, ef, "false") :
        miss \in {"none", "altitude"}, v \in 0..MaxVib, ef \in {"true", "false"} }

InitSeverity ==
    /\ InitObject
    /\ telemetry = <<>>
    /\ telemetryExists = FALSE
    /\ appended = 0
    /\ anomaliesFile = StoreFile("missing", <<>>)
    /\ pc = "api"
    /\ new_data = <<>>
    /\ anomalies = <<>>
    /\ faults = 0
    /\ signalled = "none"
    /\ erred = FALSE
    /\ sourceAtFetch = 0
    /\ cycleErr = FALSE
    /\ scoredLog = <<>>
    /\ retrainLog = <<>>
    /\ appendLog = <<>>
    /\ ret = NoCall
    /\ calls = 0

\* detector.calculate_severity(point)
CallCalculateSeverity ==
    /\ pc = "api"
    /\ \E point \in SeverityArgs :
         ret' = [op |-> "calculate_severity", arg |-> <<point>>,
                 value |-> calculate_severity(point), result |-> <<>>,
                 trained |-> m.is_trained]
    /\ UNCHANGED <<source, anomaliesFile, object, pc, new_data, anomalies, faults,
                   signalled, erred, cycle, history, calls>>

NextSeverity == CallCalculateSeverity

SpecSeverity == InitSeverity /\ [][NextSeverity]_vars

\* ================================================================== claims
Range(seq) == { seq[i] : i \in 1..Len(seq) }
Occurrences(seq, x) == Cardinality({ i \in 1..Len(seq) : seq[i] = x })

\* A logged point the loop of detect_anomalies handled as a false positive.
IsFalsePositive(e) == e.seen /\ e.label = -1 /\ e.point.engineFailure = "false"
FalsePositives == SelectSeq(scoredLog, IsFalsePositive)

\* A logged point labelled outlier whose engineFailure is true.
IsConfirmed(e) == e.label = -1 /\ e.point.engineFailure = "true"
ConfirmedAnomalies ==
    LET c == SelectSeq(scoredLog, IsConfirmed)
    IN [i \in 1..Len(c) |-> AnomalyOf(c[i].point)]

\* C1 (retrain trigger, P4): counting the false positives handled since the
\* start, the 11th, 22nd, ... and no other triggers a retrain; that retrain
\* fits the whole training buffer, whose last record is then the triggering
\* false positive, and the counter is the number of false positives since the
\* last retrain (0 right after it), however the false positives are spread
\* over batches.
C1_RetrainTrigger ==
    /\ Len(retrainLog) = Len(FalsePositives) \div 11
    /\ incorrect_anomalies = Len(FalsePositives) % 11
    /\ \A k \in 1..Len(retrainLog) :
         /\ retrainLog[k].trigger = FalsePositives[11 * k].point
         /\ retrainLog[k].ret = "True"
         /\ retrainLog[k].size <= Len(training_data)
         /\ training_data[retrainLog[k].size] = retrainLog[k].trigger
    /\ (retrainLog # <<>> /\ Len(FalsePositives) % 11 = 0)
          => m.scaler = Len(training_data)

\* The 11th false positive arrived in a later batch than the first ten.
C1_Witness ==
    /\ Len(retrainLog) = 1
    /\ Len(FalsePositives) = 11
    /\ incorrect_anomalies = 0
    /\ FalsePositives[10].cursor < FalsePositives[11].cursor
    /\ retrainLog[1].trigger = FalsePositives[11].point
    /\ m.scaler = MinTrain + 11

\* C2 (feedback exclusion, P3): a point labelled outlier with engineFailure
\* false, scored by a call of detect_anomalies that returned, is not in the
\* returned list, is never in the anomaly store, and is in the training buffer
\* exactly once.
C2_FeedbackExclusion ==
    \A i \in 1..Len(scoredLog) :
       LET e == scoredLog[i] IN
       (e.returned /\ e.label = -1 /\ e.point.engineFailure = "false")
          => /\ Occurrences(training_data, e.point) = 1
             /\ AnomalyOf(e.point) \notin Range(anomalies)
             /\ AnomalyOf(e.point) \notin Range(anomaliesFile.items)

\* A false positive and a confirmed anomaly of the same batch, the latter saved.
C2_Witness ==
    /\ pc = "sleep2"
    /\ FalsePositives # <<>>
    /\ anomaliesFile.kind = "array"
    /\ \E i \in 1..Len(scoredLog) : scoredLog[i].returned /\ IsFalsePositive(scoredLog[i])

\* C3: after the startup reset, as long as no cycle has ended in the error
\* handler, the anomaly store (together with the list about to be saved)
\* holds exactly the confirmed anomalies in the order they were scored, and
\* the file is not written at all while there is none.
C3_StoreIsConfirmed ==
    (~erred /\ pc \in {"load", "train", "detect", "save", "sleep2"})
       => /\ existing_anomalies(anomaliesFile)
                \o (IF pc = "save" THEN anomalies ELSE <<>>) = ConfirmedAnomalies
          /\ (ConfirmedAnomalies = <<>> => anomaliesFile.kind = "empty")

\* Two cycles each saved one confirmed anomaly; a false positive was left out.
C3_Witness ==
    /\ ~erred
    /\ pc = "sleep2"
    /\ Len(anomaliesFile.items) = 2
    /\ FalsePositives # <<>>

WellFormed(points) == \A i \in 1..Len(points) : points[i].missing = "none"

\* C4 (fit threshold, P1): train_model on fewer than 120 points returns False
\* and leaves is_trained, the scaler and the model as they were, trained or
\* not; on exactly 120 points that have their four features it returns True
\* and sets is_trained.
C4_FitThreshold ==
    [][(ret'.op = "train_model" /\ calls' = calls + 1)
         => /\ Len(ret'.arg) < 120 => (ret'.value = "False" /\ m' = m)
            /\ (Len(ret'.arg) = 120 /\ WellFormed(ret'.arg))
                  => (ret'.value = "True" /\ m'.is_trained /\ m'.scaler = 120)]_vars

\* A model fitted on exactly 120 points has just refused a fit on 119.
C4_Witness ==
    /\ ret.op = "train_model"
    /\ Len(ret.arg) = MinTrain - 1
    /\ ret.value = "False"
    /\ ret.trained
    /\ m.is_trained
    /\ m.scaler = MinTrain

\* C5 (score precondition, P2): detect_anomalies called on a batch of points
\* before any successful fit ends in an error the caller can tell from a
\* result; it does not return a list.
C5_ScoreBeforeFitFails ==
    (ret.op = "detect_anomalies" /\ ret.arg # <<>> /\ ~ret.trained)
       => ret.value = "raised"

\* C6: a point labelled outlier whose engineFailure key is absent is handled
\* without error, its anomaly is returned and saved by the end of the cycle,
\* and the training buffer and the counter do not change.
C6_AbsentEngineFailureIsAnomaly ==
    \A i \in 1..Len(scoredLog) :
       LET e == scoredLog[i] IN
       (e.label = -1 /\ e.point.engineFailure = "absent")
          => /\ e.returned
             /\ pc \in {"sleep2", "sleep5"}
                   => AnomalyOf(e.point) \in Range(anomaliesFile.items)

\* C7: a SIGINT delivered while run_detection_loop is in its while loop, the
\* 5 second rest of the error handler included, ends the loop through
\* "except KeyboardInterrupt: break".
C7_InterruptStopsCleanly ==
    signalled \in (InTry \cup {"sleep5"}) => pc = "stopped"

\* C8: run_detection_loop ends only when a SIGINT was delivered, whatever
\* error occurs from the moment it is entered.
C8_StopsOnlyOnCancel ==
    pc \in {"stopped", "crashed"} => signalled # "none"

\* C9: when a fetched batch holds a point without one of the four features,
\* every other point of the batch is still processed in the same cycle: with
\* the model trained, each well-formed scoring-phase point is scored and
\* handled by the end of the cycle.
C9_MalformedPointAbortsOnlyItself ==
    LET Handled(p) == \E j \in 1..Len(scoredLog) :
                         scoredLog[j].point = p /\ scoredLog[j].seen
        Labelled(p) == p.engineFailure # "absent"
    IN (/\ pc \in {"sleep2", "sleep5"}
        /\ m.is_trained
        /\ \E i \in 1..Len(new_data) : new_data[i].missing \in Features
        /\ \A i \in 1..Len(new_data) : Labelled(new_data[i]))
          => \A i \in 1..Len(new_data) :
                (NotInTrainingPhase(new_data[i]) /\ new_data[i].missing = "none")
                   => Handled(new_data[i])

\* C10 (store append, P6): save_anomalies on a missing file creates it with
\* exactly the anomalies given; each save keeps the entries the file had, in
\* their order, and puts the new ones after them, so that the file holds what
\* the saves since it was last emptied were given, in that order.
C10_StoreAppend ==
    /\ [](anomaliesFile.items = appendLog)
    /\ [][(ret'.op = "save_anomalies" /\ ret'.value = "returned" /\ calls' = calls + 1)
            => /\ anomaliesFile'.kind = "array"
               /\ anomaliesFile.kind = "missing" => anomaliesFile'.items = ret'.arg
               /\ anomaliesFile'.items = anomaliesFile.items \o ret'.arg]_vars

\* Two saves on a file that did not hold the prior anomaly made three entries.
C10_Witness ==
    /\ ret.op = "save_anomalies"
    /\ calls = 2
    /\ Len(anomaliesFile.items) = 3
    /\ PriorAnomaly \notin Range(anomaliesFile.items)
    /\ anomaliesFile.items[1].timestamp < anomaliesFile.items[3].timestamp

\* The order LOW < MEDIUM < HIGH < CRITICAL.
Rank(severity) ==
    CASE severity = "LOW" -> 0
      [] severity = "MEDIUM" -> 1
      [] severity = "HIGH" -> 2
      [] severity = "CRITICAL" -> 3

IsSeverityCall(r) == r.op = "calculate_severity"

\* C11 (severity, P5): calculate_severity returns a tier for every vibration:
\* CRITICAL iff vibration > 8.0, HIGH iff 6.0 < vibration <= 8.0, MEDIUM iff
\* 4.0 < vibration <= 6.0, LOW iff vibration <= 4.0, whatever the other keys
\* of the point are; and of two calls the one with the larger vibration never
\* returns the lower tier.
C11_Severity ==
    /\ [](IsSeverityCall(ret) =>
            LET v == ret.arg[1].vibration IN
              /\ ret.value \in {"LOW", "MEDIUM", "HIGH", "CRITICAL"}
              /\ ret.value = "CRITICAL" <=> v > 80
              /\ ret.value = "HIGH" <=> (60 < v /\ v <= 80)
              /\ ret.value = "MEDIUM" <=> (40 < v /\ v <= 60)
              /\ ret.value = "LOW" <=> v <= 40)
    /\ [][(IsSeverityCall(ret) /\ IsSeverityCall(ret')
             /\ ret.arg[1].vibration <= ret'.arg[1].vibration)
            => Rank(ret.value) <= Rank(ret'.value)]_vars

\* A vibration of exactly 8.0 was classified HIGH.
C11_Witness ==
    /\ IsSeverityCall(ret)
    /\ ret.arg[1].vibration = 80
    /\ ret.value = "HIGH"

\* C12: at the end of every fetch the cursor equals the number of lines the
\* source held at that fetch, whatever the fetch met (no new line, blank
\* lines, a missing source, a line that does not parse).
C12_CursorAtEndOfSource == last_position = sourceAtFetch

Resting == {"sleep2", "sleep5"}

\* C13 (pacing): a cycle that raised no exception ends in the rest of 2, the
\* no-data and source-missing cases included; a cycle that raised one ends in
\* the rest of 5 and takes no other rest; a cycle starts only at startup or
\* when a rest is over, and a rest is followed by the next cycle (or the end of
\* the process), never by a second rest.
C13_Pacing ==
    /\ [](pc = "sleep2" => ~cycleErr)
    /\ [](pc = "sleep5" => cycleErr)
    /\ [](cycleErr => pc \in {"sleep5", "stopped", "crashed"})
    /\ [][(pc' = "load" /\ pc # "load") => pc \in Resting \cup {"start"}]_vars
    /\ [][(pc \in Resting /\ pc' # pc) => pc' \in {"load", "stopped", "crashed"}]_vars
    /\ [][(pc \in {"load", "train", "detect", "save"} /\ pc' \in Resting)
            => pc' = (IF cycleErr' THEN "sleep5" ELSE "sleep2")]_vars

\* A trained engine rests 5 after an exception in detection.
C13_Witness ==
    /\ pc = "sleep5"
    /\ cycleErr
    /\ m.is_trained
    /\ last_position = Len(telemetry)

\* C14: once the startup reset has completed, ../anomalies.json holds a
\* well-formed JSON array at every point between operations: the empty array
\* until the first confirmed anomaly is saved, and never an entry of a prior
\* run.
C14_StoreIsJsonArray ==
    pc \in InTry \cup {"sleep5", "stopped"}
       => /\ anomaliesFile.kind = "array"
          /\ PriorAnomaly \notin Range(anomaliesFile.items)
          /\ ConfirmedAnomalies = <<>> => anomaliesFile.items = <<>>

\* C15: whenever is_trained holds, the training buffer holds at least 120
\* records; hence no retrain started by the feedback counter is refused, and
\* is_trained never goes back to false.
C15_TrainedHasFullBuffer ==
    /\ [](m.is_trained => Len(training_data) >= 120)
    /\ [](\A k \in 1..Len(retrainLog) :
            retrainLog[k].ret = "True" /\ retrainLog[k].size >= 120)
    /\ [][m.is_trained => m'.is_trained]_vars

\* A retrain on 131 records went through.
C15_Witness ==
    /\ m.is_trained
    /\ Len(retrainLog) = 1
    /\ retrainLog[1].size = MinTrain + 11
    /\ m.scaler = MinTrain + 11

IsPrefix(a, b) == Len(a) <= Len(b) /\ SubSeq(b, 1, Len(a)) = a

OnlyTrainingPhase(points) ==
    points # <<>> /\ \A i \in 1..Len(points) : InTrainingPhase(points[i])

\* C16: once the model is trained, the step that handles the training-phase
\* records of a batch, and the whole handling of a batch made of such records
\* only, leave the training buffer, the model state, the counter and the
\* anomaly store as they are; from then on every record added to the buffer is
\* a scoring-phase record handled as a false positive; and no step removes or
\* reorders a record of the buffer.
C16_TrainedIgnoresTrainingPhase ==
    /\ [][IsPrefix(training_data, training_data')]_vars
    /\ [][m.is_trained
            => \A i \in (Len(training_data) + 1)..Len(training_data') :
                  /\ NotInTrainingPhase(training_data'[i])
                  /\ \E j \in 1..Len(scoredLog') :
                       /\ scoredLog'[j].point = training_data'[i]
                       /\ IsFalsePositive(scoredLog'[j])]_vars
    /\ [][(m.is_trained /\ (pc = "train" \/ (pc = "detect" /\ OnlyTrainingPhase(new_data))))
            => UNCHANGED <<training_data, m, incorrect_anomalies, anomaliesFile>>]_vars

\* A training-phase record fetched after training is in the batch of a cycle
\* that has ended, and not in the buffer.
C16_Witness ==
    /\ m.is_trained
    /\ pc = "sleep2"
    /\ OnlyTrainingPhase(new_data)
    /\ \A i \in 1..Len(new_data) : new_data[i] \notin Range(training_data)
    /\ \E i \in 1..Len(new_data) : new_data[i].trainingPhase = "absent"

\* The batch of the current cycle held training-phase records that are now in
\* the buffer of a trained model: the model was fitted in this cycle.
FittedInThisCycle ==
    /\ m.is_trained
    /\ \E i \in 1..Len(new_data) :
          InTrainingPhase(new_data[i]) /\ new_data[i] \in Range(training_data)

\* C17: when a cycle has ended whose batch brought the buffer to 120 records
\* and the model to trained, every scoring-phase record of that batch has been
\* scored in that cycle; and nothing is ever scored while the model is
\* untrained.
C17_TrainingPrecedesScoring ==
    /\ (pc \in Resting /\ FittedInThisCycle)
          => \A i \in 1..Len(new_data) :
                NotInTrainingPhase(new_data[i])
                   => \E j \in 1..Len(scoredLog) :
                         /\ scoredLog[j].point = new_data[i]
                         /\ scoredLog[j].cursor = last_position
    /\ ~m.is_trained => scoredLog = <<>>

\* The well-formed training-phase records among the lines of a file.
IsWellFormedTraining(l) ==
    l.line = "json" /\ InTrainingPhase(l) /\ ~extract_features(l).err

WellFormedTraining(file) == SelectSeq(file, IsWellFormedTraining)

\* The producer has written its last line, every line of the source is a
\* record or blank, and at least 120 of them are well-formed training-phase
\* records.
SourceHoldsTraining ==
    /\ telemetryExists
    /\ appended = MaxAppend
    /\ \A i \in 1..Len(telemetry) : telemetry[i].line # "garbage"
    /\ Len(WellFormedTraining(telemetry)) >= MinTrain

\* C18: once the source holds at least 120 well-formed training-phase records,
\* whatever other records it holds, the model eventually becomes trained unless
\* the loop is cancelled or has ended.
C18_InitialTrainingLive ==
    SourceHoldsTraining ~> (m.is_trained \/ pc \in {"stopped", "crashed"})

\* The entries that the step just taken added to the log of scored points.
NewlyScored == { scoredLog'[j] : j \in (Len(scoredLog) + 1)..Len(scoredLog') }

\* C19: every record of a batch that detect_anomalies has worked through is
\* treated according to the label that the model of the start of the call
\* gives it, also after a retrain in the middle of the batch: an outlier of
\* that model with engineFailure false joins the training buffer, an outlier
\* with engineFailure true is returned, an inlier of that model is neither.
\* The retrained model labels the batches scored after that call.
C19_LabelsFixedAtCallStart ==
    [][\A e \in NewlyScored :
          /\ e.boundary = m.model
          /\ e.label = m.model[e.point.vibration]
          /\ e.seen =>
               /\ (m.model[e.point.vibration] = -1 /\ e.point.engineFailure = "false")
                     <=> e.point \in Range(training_data')
               /\ (m.model[e.point.vibration] = -1 /\ e.point.engineFailure = "true"
                      /\ e.returned)
                     => AnomalyOf(e.point) \in Range(anomalies')
               /\ m.model[e.point.vibration] = 1
                     => AnomalyOf(e.point) \notin Range(anomalies')]_vars

\* A batch in which the 11th false positive retrained the model to one that
\* calls this vibration normal, and the record after it was still handled as
\* a false positive.
C19_Witness ==
    \E j \in 1..Len(scoredLog) :
       /\ j < Len(scoredLog)
       /\ retrainLog # <<>>
       /\ retrainLog[1].trigger = scoredLog[j].point
       /\ scoredLog[j + 1].cursor = scoredLog[j].cursor
       /\ scoredLog[j + 1].seen
       /\ scoredLog[j + 1].label = -1
       /\ scoredLog[j + 1].point.engineFailure = "false"
       /\ scoredLog[j + 1].point \in Range(training_data)
       /\ m.model # scoredLog[j].boundary
       /\ m.model[scoredLog[j + 1].point.vibration] = 1
       /\ incorrect_anomalies = 1

\* The value of the counter before detection handled the record logged as
\* entry j by the step just taken.
CounterBefore(j) ==
    IF j = Len(scoredLog) + 1 THEN incorrect_anomalies ELSE scoredLog'[j - 1].count

IsRetrainTrigger(point) ==
    \E k \in (Len(retrainLog) + 1)..Len(retrainLog') : retrainLog'[k].trigger = point

\* C20: the counter of misjudged anomalies is in 0..10 in every state and
\* after every record handled by detection; a false positive raises it by one,
\* or, being the 11th, runs the retrain, which sets it to 0; no other record
\* and no other step changes it.
C20_MisjudgedCounter ==
    /\ [](/\ incorrect_anomalies \in 0..Threshold
          /\ \A i \in 1..Len(scoredLog) : scoredLog[i].count \in 0..Threshold)
    /\ [][\A j \in (Len(scoredLog) + 1)..Len(scoredLog') :
             LET e == scoredLog'[j] IN
             IF IsFalsePositive(e)
             THEN IF CounterBefore(j) < Threshold
                  THEN e.count = CounterBefore(j) + 1 /\ ~IsRetrainTrigger(e.point)
                  ELSE e.count = 0 /\ IsRetrainTrigger(e.point)
             ELSE e.count = CounterBefore(j) /\ ~IsRetrainTrigger(e.point)]_vars
    /\ [][incorrect_anomalies' = CounterBefore(Len(scoredLog') + 1)]_vars
    /\ [][incorrect_anomalies' < incorrect_anomalies
             => Len(retrainLog') > Len(retrainLog)]_vars

\* Ten false positives, then a confirmed anomaly that left the counter at 10,
\* then the false positive that ran the retrain.
C20_Witness ==
    \E j \in 1..Len(scoredLog) :
       /\ j + 2 <= Len(scoredLog)
       /\ IsFalsePositive(scoredLog[j]) /\ scoredLog[j].count = Threshold
       /\ IsConfirmed(scoredLog[j + 1]) /\ scoredLog[j + 1].count = Threshold
       /\ IsFalsePositive(scoredLog[j + 2]) /\ scoredLog[j + 2].count = 0
       /\ retrainLog # <<>>
       /\ retrainLog[1].trigger = scoredLog[j + 2].point
       /\ incorrect_anomalies = 0

====
